---- MODULE Spec2Model ----
(***************************************************************************)
(* Model of src/containers/UnenrollConfirmModal/hooks.js: the unenroll     *)
(* confirmation modal's state (five React state cells), the handlers the   *)
(* hooks return, and the values derived at every render.                   *)
(*                                                                         *)
(* One action is one event handler run to completion followed by the       *)
(* re-render React performs after it.  A handler is evaluated as the       *)
(* sequential composition of its statements over a record m:               *)
(*   m.st      the state cells as the handler's setState calls leave them  *)
(*   m.eff     the external calls made so far, each with the cells it saw  *)
(*             and whether it threw                                        *)
(*   m.thrown  TRUE once a collaborator call has thrown; a statement after *)
(*             a throw does not run (the handlers have no try/catch).      *)
(***************************************************************************)
EXTENDS Integers, Sequences, FiniteSets, TLC

\* ---- bounds -------------------------------------------------------------
NumKeys == 2    \* reason keys other than 'custom' the view may offer
NumTexts == 2   \* distinct custom texts the user may type
NumMockVals == 1 \* distinct values a test passes to a mocked getter or setState

\* ---- values -------------------------------------------------------------
\* JavaScript null; no reason key and no custom text is this string
NULL == "null"

KeyNames == <<"found-another-course", "key2", "key3", "key4">>
TextNames == <<"", "too expensive", "text3", "text4">>

\* 'custom' is the key hooks.js:57 tests for
ReasonKeys == {"custom"} \cup {KeyNames[i] : i \in 1..NumKeys}
Texts == {TextNames[i] : i \in 1..NumTexts}

\* hooks.js:17-21
modalStates == [confirm |-> "confirm", reason |-> "reason", finished |-> "finished"]

VARIABLES
  isConfirmed,      \* state.confirmed        hooks.js:67
  selectedReason,   \* state.selectedReason   hooks.js:24
  submittedReason,  \* state.submittedReason  hooks.js:25
  isSkipped,        \* state.isSkipped        hooks.js:26
  customOption,     \* state.customOption     hooks.js:27
  isSubmitted,      \* reason.isSubmitted as returned by the last render
  modalState,       \* modalState as returned by the last render
  lastCall,         \* the handler that ran last ("init" before any)
  pre,              \* the state cells before the last handler ran
  effects,          \* the external calls the last handler made, in order
  thrown,           \* the last handler was ended by a throwing collaborator
  selectedSinceClear, \* selectOption was called since the cells were last cleared
  nullSelected,     \* selectOption was called with null at some time
  heap,             \* the objects of the hooks module: object |-> key |-> entry
  hooksState,       \* MockUseState: the object this.hooks.state refers to
  oldState,         \* MockUseState: the object this.oldState refers to
  setState,         \* MockUseState: the keys this.setState has a mock for
  stateVals,        \* MockUseState: this.stateVals
  mockLastCall      \* the MockUseState method that ran last ("new" before any)

vars == <<isConfirmed, selectedReason, submittedReason, isSkipped, customOption,
          isSubmitted, modalState, lastCall, pre, effects, thrown,
          selectedSinceClear, nullSelected,
          heap, hooksState, oldState, setState, stateVals, mockLastCall>>

\* the modal session and the test utility, each left alone by the other
modalVars == <<isConfirmed, selectedReason, submittedReason, isSkipped, customOption,
               isSubmitted, modalState, lastCall, pre, effects, thrown,
               selectedSinceClear, nullSelected>>

mockVars == <<heap, hooksState, oldState, setState, stateVals, mockLastCall>>

\* the five cells as one record
cells == [isConfirmed |-> isConfirmed, selectedReason |-> selectedReason,
          submittedReason |-> submittedReason, isSkipped |-> isSkipped,
          customOption |-> customOption]

\* the initial values handed to useState (hooks.js:24-27, 67)
initialCells == [isConfirmed |-> FALSE, selectedReason |-> NULL,
                 submittedReason |-> NULL, isSkipped |-> FALSE,
                 customOption |-> ""]

\* ---- setState calls -----------------------------------------------------
setSelectedReason(m, val) ==
  IF m.thrown THEN m ELSE [m EXCEPT !.st.selectedReason = val]

setSubmittedReason(m, val) ==
  IF m.thrown THEN m ELSE [m EXCEPT !.st.submittedReason = val]

setCustomOption(m, val) ==
  IF m.thrown THEN m ELSE [m EXCEPT !.st.customOption = val]

setIsSkipped(m, val) ==
  IF m.thrown THEN m ELSE [m EXCEPT !.st.isSkipped = val]

setIsConfirmed(m, val) ==
  IF m.thrown THEN m ELSE [m EXCEPT !.st.isConfirmed = val]

\* ---- collaborator calls --------------------------------------------------
\* dispatch(thunkActions.app.refreshList()); fails says whether it throws
dispatch(m, fails) ==
  IF m.thrown THEN m
  ELSE [m EXCEPT !.eff = Append(@, [call |-> "refreshList", saw |-> m.st, threw |-> fails]),
                 !.thrown = fails]

\* closeModal(); fails says whether it throws
closeModal(m, fails) ==
  IF m.thrown THEN m
  ELSE [m EXCEPT !.eff = Append(@, [call |-> "closeModal", saw |-> m.st, threw |-> fails]),
                 !.thrown = fails]

\* ---- useUnenrollReasons handlers ----------------------------------------
\* clear that leaves the custom text in place
clearKeepsCustomOption(m) ==
  setIsSkipped(setSubmittedReason(setSelectedReason(m, NULL), NULL), FALSE)

clear(m) ==
  setIsSkipped(setCustomOption(setSubmittedReason(setSelectedReason(m, NULL), NULL), ""), FALSE)

\* useValueCallback(cb): the handler passes the event's value to cb
useValueCallback(val) == val

\* selectOption that also empties the custom text
selectOptionClearsCustom(m, key) ==
  setCustomOption(setSelectedReason(m, useValueCallback(key)), "")

selectOption(m, key) == setSelectedReason(m, useValueCallback(key))

onChange(m, text) == setCustomOption(m, useValueCallback(text))

\* skip that also confirms
skipConfirms(m) == setIsConfirmed(setIsSkipped(m, TRUE), TRUE)

skip(m) == setIsSkipped(m, TRUE)

\* submit that does nothing without a selection
submitGuarded(m) ==
  IF m.st.selectedReason = NULL THEN m
  ELSE IF m.st.selectedReason = "custom"
    THEN setSubmittedReason(m, m.st.customOption)
    ELSE setSubmittedReason(m, m.st.selectedReason)

\* submit that stores the custom text only
submitCustomOnly(m) ==
  IF m.st.selectedReason = "custom"
    THEN setSubmittedReason(m, m.st.customOption)
    ELSE m

\* submit that ignores the custom text
submitSelectedOnly(m) == setSubmittedReason(m, m.st.selectedReason)

\* submit that withdraws an earlier skip
submitResetsSkip(m) ==
  IF m.st.selectedReason = "custom"
    THEN setIsSkipped(setSubmittedReason(m, m.st.customOption), FALSE)
    ELSE setIsSkipped(setSubmittedReason(m, m.st.selectedReason), FALSE)

submit(m) ==
  IF m.st.selectedReason = "custom"
    THEN setSubmittedReason(m, m.st.customOption)
    ELSE setSubmittedReason(m, m.st.selectedReason)

\* ---- useUnenrollData handlers -------------------------------------------
\* confirm that writes false
confirmSetsFalse(m) == setIsConfirmed(m, FALSE)

\* confirm that toggles the flag
confirmToggles(m) == setIsConfirmed(m, ~m.st.isConfirmed)

confirm(m) == setIsConfirmed(m, TRUE)

\* close that leaves the confirmation in place
closeKeepsConfirmed(m, closeFails) == clear(closeModal(m, closeFails))

close(m, closeFails) ==
  clear(setIsConfirmed(closeModal(m, closeFails), FALSE))

\* closeAndRefresh that closes the modal before it dispatches the refresh
closeThenRefresh(m, dispatchFails, closeFails) ==
  clear(setIsConfirmed(dispatch(closeModal(m, closeFails), dispatchFails), FALSE))

closeAndRefresh(m, dispatchFails, closeFails) ==
  clear(setIsConfirmed(closeModal(dispatch(m, dispatchFails), closeFails), FALSE))

\* ---- values derived at render -------------------------------------------
\* isSubmitted that tests the submitted value for truthiness
renderIsSubmittedTruthy(st) ==
  (st.submittedReason # NULL /\ st.submittedReason # "") \/ st.isSkipped

\* isSubmitted that does not count a skip
renderIsSubmittedNoSkip(st) == st.submittedReason # NULL

renderIsSubmitted(st) == st.submittedReason # NULL \/ st.isSkipped

\* modalState that reports finished whenever a reason is decided
renderModalStateUnconfirmed(st) ==
  IF renderIsSubmitted(st) THEN modalStates.finished
  ELSE IF st.isConfirmed THEN modalStates.reason ELSE modalStates.confirm

renderModalState(st) ==
  IF st.isConfirmed
    THEN (IF renderIsSubmitted(st) THEN modalStates.finished ELSE modalStates.reason)
    ELSE modalStates.confirm

\* ---- MockUseState -------------------------------------------------------
\* the keys of the state object (hooks.js:9-15)
StateKeys == {"confirmed", "customOption", "isSkipped", "selectedReason", "submittedReason"}

MockVals == 1..NumMockVals

\* no object: null, and a stateVals key that was never written
NO_REF == 0

\* the object built by StrictDict({...}) at hooks.js:9
STATE_OBJ == 1

\* what a key of the state object can hold
useStateGetter == [kind |-> "useState", val |-> 0]   \* (val) => React.useState(val)
mockGetter == [kind |-> "jest.fn", val |-> 0]        \* the jest.fn of mock()
plainValue(val) == [kind |-> "value", val |-> val]   \* a value stored by a mocked setState

\* the module as loaded and new MockUseState(hooks)
MockInit ==
  /\ heap = [o \in {STATE_OBJ} |-> [key \in StateKeys |-> useStateGetter]]
  /\ hooksState = STATE_OBJ
  /\ oldState = NO_REF
  /\ setState = {}
  /\ stateVals = [key \in StateKeys |-> NO_REF]
  /\ mockLastCall = "new"

\* mock(): oldState takes the reference, then every key of that same object
\* is overwritten; Object.keys(null) throws when hooks.state is null
MockUseState_mock ==
  /\ oldState' = hooksState
  /\ IF hooksState = NO_REF
       THEN UNCHANGED <<heap, setState>>
       ELSE /\ heap' = [heap EXCEPT ![hooksState] = [key \in StateKeys |-> mockGetter]]
            /\ setState' = StateKeys
  /\ mockLastCall' = "mock"
  /\ UNCHANGED <<hooksState, stateVals>>

\* restore(): hooks.state takes the reference kept in oldState
MockUseState_restore ==
  /\ hooksState' = oldState
  /\ mockLastCall' = "restore"
  /\ UNCHANGED <<heap, oldState, setState, stateVals>>

\* this.setState[key](val): stores val under the key of hooks.state
MockUseState_setState ==
  \E key \in setState, val \in MockVals :
    /\ hooksState # NO_REF
    /\ heap' = [heap EXCEPT ![hooksState][key] = plainValue(val)]
    /\ mockLastCall' = "setState"
    /\ UNCHANGED <<hooksState, oldState, setState, stateVals>>

\* hooks.state[key](val) while the key holds the jest.fn of mock()
MockUseState_getter ==
  \E key \in StateKeys, val \in MockVals :
    /\ hooksState # NO_REF
    /\ heap[hooksState][key] = mockGetter
    /\ stateVals' = [stateVals EXCEPT ![key] = val]
    /\ mockLastCall' = "getter"
    /\ UNCHANGED <<heap, hooksState, oldState, setState>>

MockNext ==
  \/ MockUseState_mock /\ UNCHANGED modalVars
  \/ MockUseState_restore /\ UNCHANGED modalVars
  \/ MockUseState_setState /\ UNCHANGED modalVars
  \/ MockUseState_getter /\ UNCHANGED modalVars

\* ---- the state machine --------------------------------------------------
\* a handler starts from the committed cells with no call made
start == [st |-> cells, eff |-> <<>>, thrown |-> FALSE]

\* the handler's result is committed and the hooks render again
Commit(call, m) ==
  /\ isConfirmed' = m.st.isConfirmed
  /\ selectedReason' = m.st.selectedReason
  /\ submittedReason' = m.st.submittedReason
  /\ isSkipped' = m.st.isSkipped
  /\ customOption' = m.st.customOption
  /\ isSubmitted' = renderIsSubmitted(m.st)
  /\ modalState' = renderModalState(m.st)
  /\ lastCall' = call
  /\ pre' = cells
  /\ effects' = m.eff
  /\ thrown' = m.thrown
  /\ selectedSinceClear' =
       IF call = "selectOption" THEN TRUE
       ELSE IF call \in {"clear", "close", "closeAndRefresh"} /\ ~m.thrown THEN FALSE
       ELSE selectedSinceClear
  /\ nullSelected' = (nullSelected \/ (call = "selectOption" /\ m.st.selectedReason = NULL))
  /\ UNCHANGED mockVars

Init ==
  /\ isConfirmed = initialCells.isConfirmed
  /\ selectedReason = initialCells.selectedReason
  /\ submittedReason = initialCells.submittedReason
  /\ isSkipped = initialCells.isSkipped
  /\ customOption = initialCells.customOption
  /\ isSubmitted = renderIsSubmitted(initialCells)
  /\ modalState = renderModalState(initialCells)
  /\ lastCall = "init"
  /\ pre = initialCells
  /\ effects = <<>>
  /\ thrown = FALSE
  /\ selectedSinceClear = FALSE
  /\ nullSelected = FALSE
  /\ MockInit

Confirm == Commit("confirm", confirm(start))

SelectOption == \E key \in ReasonKeys \cup {NULL} : Commit("selectOption", selectOption(start, key))

OnChange == \E text \in Texts : Commit("onChange", onChange(start, text))

Skip == Commit("skip", skip(start))

Submit == Commit("submit", submit(start))

Clear == Commit("clear", clear(start))

Close == \E closeFails \in BOOLEAN : Commit("close", close(start, closeFails))

CloseAndRefresh ==
  \E dispatchFails \in BOOLEAN, closeFails \in BOOLEAN :
    Commit("closeAndRefresh", closeAndRefresh(start, dispatchFails, closeFails))

Next ==
  \/ Confirm
  \/ SelectOption
  \/ OnChange
  \/ Skip
  \/ Submit
  \/ Clear
  \/ Close
  \/ CloseAndRefresh

Spec == Init /\ [][Next]_vars

\* the test utility driven on its own
MockSpec == Init /\ [][MockNext]_vars

TypeOK ==
  /\ isConfirmed \in BOOLEAN
  /\ selectedReason \in ReasonKeys \cup {NULL}
  /\ submittedReason \in ReasonKeys \cup Texts \cup {NULL}
  /\ isSkipped \in BOOLEAN
  /\ customOption \in Texts
  /\ isSubmitted \in BOOLEAN
  /\ thrown \in BOOLEAN
  /\ Len(effects) <= 2
\* ---- properties ---------------------------------------------------------
Called(names) == lastCall \in names

\* every cell held a non-initial value before the last handler ran
preAllSet ==
  /\ pre.isConfirmed
  /\ pre.selectedReason # NULL
  /\ pre.submittedReason # NULL
  /\ pre.isSkipped
  /\ pre.customOption # ""

\* C1: in every reachable state modalState is one of confirm, reason,
\* finished and agrees with the flags: confirm iff not confirmed, reason iff
\* confirmed and not submitted, finished iff confirmed and submitted, where
\* isSubmitted is (submittedReason is not null) or isSkipped; a submit or
\* skip made while not confirmed leaves modalState off finished.
C1_ModalStateDerived ==
  /\ modalState \in {modalStates.confirm, modalStates.reason, modalStates.finished}
  /\ isSubmitted <=> (submittedReason # NULL \/ isSkipped)
  /\ (modalState = modalStates.confirm) <=> ~isConfirmed
  /\ (modalState = modalStates.reason) <=> (isConfirmed /\ ~isSubmitted)
  /\ (modalState = modalStates.finished) <=> (isConfirmed /\ isSubmitted)
  /\ (Called({"submit", "skip"}) /\ ~pre.isConfirmed) => modalState # modalStates.finished

\* a skip made before confirmation: submitted, yet the phase is confirm
C1_Witness ==
  /\ lastCall = "skip"
  /\ ~pre.isConfirmed
  /\ isSubmitted
  /\ modalState = modalStates.confirm

\* C2 as stated: no step leads from modalState confirm to modalState finished.
C2_NoConfirmToFinished ==
  [][modalState = modalStates.confirm => modalState' # modalStates.finished]_vars

\* C2 amended: from modalState confirm, no handler other than confirm leads
\* to finished (they all leave modalState at confirm), and confirm leads to
\* finished exactly when a reason was already submitted or skipped, to
\* reason otherwise.
C2_ConfirmToFinishedOnlyByConfirm ==
  [][modalState = modalStates.confirm =>
       /\ lastCall' # "confirm" => modalState' = modalStates.confirm
       /\ lastCall' = "confirm" =>
            modalState' = (IF isSubmitted THEN modalStates.finished ELSE modalStates.reason)]_vars

\* confirm took an unconfirmed session with a decided reason straight to finished
C2_Witness ==
  /\ lastCall = "confirm"
  /\ ~pre.isConfirmed
  /\ pre.isSkipped \/ pre.submittedReason # NULL
  /\ modalState = modalStates.finished

\* C3: in every closeAndRefresh the refresh is dispatched first, closeModal
\* is called second, both see the cells as they were before the call, and
\* the cells are reset only after both calls were made.
C3_CloseAndRefreshOrder ==
  lastCall = "closeAndRefresh" =>
    /\ Len(effects) >= 1
    /\ effects[1].call = "refreshList"
    /\ Len(effects) >= 2 => effects[2].call = "closeModal"
    /\ Len(effects) <= 2
    /\ \A i \in 1..Len(effects) : effects[i].saw = pre
    /\ cells # pre => (Len(effects) = 2 /\ ~thrown)
    /\ ~thrown => (Len(effects) = 2 /\ cells = initialCells)

\* a closeAndRefresh of a confirmed, skipped session that made both calls
C3_Witness ==
  /\ lastCall = "closeAndRefresh"
  /\ ~thrown
  /\ pre.isConfirmed
  /\ pre.isSkipped
  /\ Len(effects) = 2
  /\ cells = initialCells

\* C4 as stated: when the refresh dispatched by closeAndRefresh throws,
\* closeModal is still called and the cells still end at their initial values.
C4_RefreshFailureStillResets ==
  (lastCall = "closeAndRefresh" /\ Len(effects) >= 1 /\ effects[1].threw) =>
    /\ \E i \in 1..Len(effects) : effects[i].call = "closeModal"
    /\ cells = initialCells

\* C5: after a close or closeAndRefresh that ran to its end all five cells
\* hold their initial values, so modalState is confirm, value is null and
\* the rendered values are those of a fresh session.
C5_CloseResetsAll ==
  (Called({"close", "closeAndRefresh"}) /\ ~thrown) =>
    /\ cells = initialCells
    /\ modalState = modalStates.confirm
    /\ submittedReason = NULL
    /\ isSubmitted = renderIsSubmitted(initialCells)
    /\ ~selectedSinceClear

\* a close of a session in which every cell had been set
C5_Witness ==
  /\ lastCall = "close"
  /\ ~thrown
  /\ preAllSet
  /\ cells = initialCells

\* C6: after clear, selected is null, the custom text is empty, isSkipped is
\* false, value is null and isSubmitted is false, whatever came before.
C6_ClearResetsReason ==
  lastCall = "clear" =>
    /\ selectedReason = NULL
    /\ customOption = ""
    /\ isSkipped = FALSE
    /\ submittedReason = NULL
    /\ isSubmitted = FALSE

\* a clear of a session in which every reason cell had been set
C6_Witness ==
  /\ lastCall = "clear"
  /\ preAllSet
  /\ selectedReason = NULL
  /\ ~isSubmitted

\* C7: submit sets value to the custom text when selected is 'custom' and to
\* selected itself otherwise, whatever the custom text is.
C7_SubmitValue ==
  lastCall = "submit" =>
    /\ pre.selectedReason = "custom" => submittedReason = pre.customOption
    /\ pre.selectedReason # "custom" => submittedReason = pre.selectedReason

\* submit with 'custom' selected and the text "too expensive" typed
C7_Witness ==
  /\ lastCall = "submit"
  /\ pre.selectedReason = "custom"
  /\ pre.customOption = "too expensive"
  /\ submittedReason = "too expensive"

\* C8: a skip in a session where selectOption was not called since the last
\* clear gives isSubmitted true while value is null.
C8_SkipShortCircuits ==
  (lastCall = "skip" /\ ~selectedSinceClear) =>
    /\ isSubmitted
    /\ submittedReason = NULL

\* the first skip of a session without a selection
C8_Witness ==
  /\ lastCall = "skip"
  /\ ~selectedSinceClear
  /\ ~pre.isSkipped
  /\ isSubmitted
  /\ submittedReason = NULL

\* C9: confirm and skip are idempotent: from every reachable state a second
\* call gives the cells and the rendered phase the first call gave, and a
\* call that finds its flag already set changes nothing.
C9_FlagSettersIdempotent ==
  /\ confirm(confirm(start)).st = confirm(start).st
  /\ confirm(start).st.isConfirmed
  /\ skip(skip(start)).st = skip(start).st
  /\ skip(start).st.isSkipped
  /\ (lastCall = "confirm" /\ pre.isConfirmed) =>
       (cells = pre /\ isConfirmed /\ modalState = renderModalState(pre))
  /\ (lastCall = "skip" /\ pre.isSkipped) =>
       (cells = pre /\ isSkipped /\ modalState = renderModalState(pre))

\* a second confirm
C9_Witness ==
  /\ lastCall = "confirm"
  /\ pre.isConfirmed
  /\ isConfirmed
  /\ cells = pre

\* C10: once isSkipped is true it stays true across selectOption, onChange,
\* submit, skip and confirm, and it turns false only in a step of clear,
\* close or closeAndRefresh.
C10_SkippedOneWay ==
  [][isSkipped =>
       /\ lastCall' \in {"selectOption", "onChange", "submit", "skip", "confirm"} => isSkipped'
       /\ ~isSkipped' => lastCall' \in {"clear", "close", "closeAndRefresh"}]_vars

\* a submit made after a skip, with the skip still standing
C10_Witness ==
  /\ lastCall = "submit"
  /\ pre.isSkipped
  /\ isSkipped
  /\ submittedReason # NULL
\* the values the hooks rendered before the last handler ran
preIsSubmitted == renderIsSubmitted(pre)
preModalState == renderModalState(pre)

\* C11 as stated: a submit made while selected is null changes no cell,
\* leaves isSubmitted and modalState as they were, and throws nothing.
C11_SubmitWithoutSelectionNoOp ==
  (lastCall = "submit" /\ pre.selectedReason = NULL) =>
    /\ cells = pre
    /\ isSubmitted = preIsSubmitted
    /\ modalState = preModalState
    /\ ~thrown

\* C11 amended: a submit made while selected is null sets submittedReason
\* to null, changes no other cell, calls no collaborator and throws
\* nothing; it changes nothing at all when submittedReason was null already.
C11_SubmitWithoutSelectionStoresNull ==
  (lastCall = "submit" /\ pre.selectedReason = NULL) =>
    /\ cells = [pre EXCEPT !.submittedReason = NULL]
    /\ ~thrown
    /\ effects = <<>>
    /\ pre.submittedReason = NULL =>
         (cells = pre /\ isSubmitted = preIsSubmitted /\ modalState = preModalState)

\* a submit without a selection that withdrew a value submitted earlier
C11_Witness ==
  /\ lastCall = "submit"
  /\ pre.selectedReason = NULL
  /\ pre.submittedReason # NULL
  /\ ~pre.isSkipped
  /\ pre.isConfirmed
  /\ submittedReason = NULL
  /\ modalState = modalStates.reason

\* C12: from modalState reason, skip leads to finished, submit with a
\* non-null selection leads to finished, and selectOption, onChange and
\* confirm (and a submit without a selection) leave modalState at reason.
C12_ReasonToFinished ==
  [][modalState = modalStates.reason =>
       /\ lastCall' = "skip" => modalState' = modalStates.finished
       /\ (lastCall' = "submit" /\ selectedReason # NULL) => modalState' = modalStates.finished
       /\ (lastCall' = "submit" /\ selectedReason = NULL) => modalState' = modalStates.reason
       /\ lastCall' \in {"selectOption", "onChange", "confirm"} => modalState' = modalStates.reason
       /\ modalState' = modalStates.finished => lastCall' \in {"skip", "submit"}]_vars

\* a submit of a non-custom key that took the phase from reason to finished
C12_Witness ==
  /\ lastCall = "submit"
  /\ preModalState = modalStates.reason
  /\ pre.selectedReason \notin {NULL, "custom"}
  /\ modalState = modalStates.finished

\* C13: a fresh session, and a session right after a close or
\* closeAndRefresh that ran to its end, renders confirm with isSubmitted
\* false, and confirm called there leads to reason.
C13_ConfirmToReason ==
  /\ (lastCall = "init" \/ (Called({"close", "closeAndRefresh"}) /\ ~thrown)) =>
       (modalState = modalStates.confirm /\ ~isSubmitted)
  /\ (lastCall = "confirm" /\ pre = initialCells) =>
       (isConfirmed /\ modalState = modalStates.reason)

\* confirm called on a session in its initial state
C13_Witness ==
  /\ lastCall = "confirm"
  /\ pre = initialCells
  /\ preModalState = modalStates.confirm
  /\ modalState = modalStates.reason

\* C15: selectOption writes only selected, onChange only the custom text,
\* skip only isSkipped, submit only submittedReason and confirm only
\* isConfirmed; so reason handlers keep isConfirmed, confirm keeps the
\* reason cells, and selectOption and onChange keep the submitted value.
C15_WritesOwnCellOnly ==
  /\ lastCall = "selectOption" => cells = [pre EXCEPT !.selectedReason = selectedReason]
  /\ lastCall = "onChange" => cells = [pre EXCEPT !.customOption = customOption]
  /\ lastCall = "skip" => cells = [pre EXCEPT !.isSkipped = isSkipped]
  /\ lastCall = "submit" => cells = [pre EXCEPT !.submittedReason = submittedReason]
  /\ lastCall = "confirm" => cells = [pre EXCEPT !.isConfirmed = isConfirmed]
  /\ Called({"selectOption", "onChange", "skip", "submit"}) => isConfirmed = pre.isConfirmed
  /\ Called({"selectOption", "onChange"}) => submittedReason = pre.submittedReason

\* a change of selection after a submit, with custom text typed: the
\* submitted value and the text are as before
C15_Witness ==
  /\ lastCall = "selectOption"
  /\ pre.submittedReason # NULL
  /\ pre.customOption # ""
  /\ selectedReason # pre.selectedReason
  /\ submittedReason = pre.submittedReason
  /\ customOption = pre.customOption

\* C17: a submit with a non-null selection makes isSubmitted true; with
\* 'custom' selected and an empty custom text the value is the empty
\* string, which counts as submitted, and a confirmed session is finished.
C17_SubmitAlwaysSubmits ==
  (lastCall = "submit" /\ pre.selectedReason # NULL) =>
    /\ submittedReason # NULL
    /\ isSubmitted
    /\ isConfirmed => modalState = modalStates.finished
    /\ (pre.selectedReason = "custom" /\ pre.customOption = "") => submittedReason = ""

\* a confirmed session finished by submitting an empty custom text
C17_Witness ==
  /\ lastCall = "submit"
  /\ pre.selectedReason = "custom"
  /\ pre.customOption = ""
  /\ pre.submittedReason = NULL
  /\ ~pre.isSkipped
  /\ pre.isConfirmed
  /\ submittedReason = ""
  /\ modalState = modalStates.finished
\* C16 as stated: while selectOption is never called with null, modalState
\* finished stays finished across confirm, selectOption, onChange, skip and
\* submit, and it is left only in a step of close or closeAndRefresh.
C16_FinishedUntilClose ==
  [][(modalState = modalStates.finished /\ ~nullSelected') =>
       /\ lastCall' \in {"confirm", "selectOption", "onChange", "skip", "submit"} =>
            modalState' = modalStates.finished
       /\ modalState' # modalStates.finished => lastCall' \in {"close", "closeAndRefresh"}]_vars

\* C16 amended: while selectOption is never called with null, modalState
\* finished stays finished across confirm, selectOption, onChange, skip and
\* submit; it is left only in a step of close, closeAndRefresh or clear,
\* and isSubmitted turns from true to false only in such a step.
C16_FinishedUntilCleared ==
  [][~nullSelected' =>
       /\ modalState = modalStates.finished =>
            /\ lastCall' \in {"confirm", "selectOption", "onChange", "skip", "submit"} =>
                 modalState' = modalStates.finished
            /\ modalState' # modalStates.finished =>
                 lastCall' \in {"clear", "close", "closeAndRefresh"}
       /\ (isSubmitted /\ ~isSubmitted') => lastCall' \in {"clear", "close", "closeAndRefresh"}]_vars

\* a finished session that submitted another value and is still finished
C16_Witness ==
  /\ lastCall = "submit"
  /\ ~nullSelected
  /\ preModalState = modalStates.finished
  /\ pre.submittedReason # submittedReason
  /\ modalState = modalStates.finished

\* the collaborator calls the last handler made, in order
effectCalls == [i \in 1..Len(effects) |-> effects[i].call]

\* C18 as stated: every close calls closeModal exactly once and dispatches
\* nothing, every closeAndRefresh dispatches the refresh exactly once and
\* calls closeModal exactly once, and confirm and the reason handlers call
\* neither.
C18_EffectsOncePerClose ==
  /\ lastCall = "close" => effectCalls = <<"closeModal">>
  /\ lastCall = "closeAndRefresh" => effectCalls = <<"refreshList", "closeModal">>
  /\ Called({"init", "confirm", "selectOption", "onChange", "skip", "submit", "clear"}) =>
       effectCalls = <<>>
\* C19 as stated: after mock() and a later restore(), with or without
\* mocked setState calls in between, every key of hooks.state holds the
\* original state getter again.
C19_RestoreRoundTrip ==
  (mockLastCall = "restore" /\ oldState # NO_REF) =>
    /\ hooksState # NO_REF
    /\ \A key \in StateKeys : heap[hooksState][key] = useStateGetter
====
